---- MODULE Spec2Model ----
(***************************************************************************)
(* A model of grab_github: the path filter (src/src/filter.rs), the source *)
(* tree with its assembly, walker and resolve (src/src/source_tree.rs),    *)
(* the truncation-aware tree fetch (src/src/source_tree.rs, TreeModel) and *)
(* the download loop (src/src/download.rs).                                *)
(*                                                                         *)
(* Paths are sequences of segments ("a/b" is <<"a", "b">>): Path::parent   *)
(* drops the last segment, Path::file_name is the last segment and         *)
(* format!("{}/{}", p, q) is p \o q.  References into a tree (&SourceTree) *)
(* are addresses: the sequence of child positions from the root.           *)
(* Option values are sequences of length 0 (None) or 1 (Some).             *)
(***************************************************************************)
EXTENDS Integers, Sequences, FiniteSets, TLC

VARIABLES
    included,       \* Filter.included
    excluded,       \* Filter.excluded
    chk_path,       \* the last path handed to Filter::check
    chk_result,     \* what Filter::check returned for it (Option)
    listing,        \* TreeModel.tree, the flat listing handed to assembly
    asm,            \* assembly: "pending", "done", or "panic" (it aborted)
    tree,           \* Option: the assembled SourceTree
    iter,           \* SourceTreeIterator.0: a stack of <<address, pos>>
    yielded,        \* the addresses SourceTreeIterator::next returned so far
    iter_state,     \* "idle" (no iterator), "running", "done" (next returned None)
    res_query,      \* the last resolve call: [fn, path, find_blob]
    res_result,     \* its result: Option of an address
    prune_pred,     \* Option: the predicate of the last prune call
    pruned,         \* Option: the tree that call returned
    repo,           \* the remote repository: its full recursive listing
    fpc,            \* where TreeModel::get_tree is
    exchanges,      \* the requests made so far, each with the response it got
    frames,         \* the calls of get_tree / get_tree_manual in progress
    entries,        \* get_tree: entries, the accumulator of the manual walk
    fetch_result,   \* what TreeModel::get_tree returned
    max_simultaneous_downloads,  \* DownloadConfig.max_simultaneous_downloads
    reporter,       \* DownloadConfig.reporter is Some
    files,          \* download_tree_iter: files (addresses of the selected nodes)
    active,         \* download_tree_iter: active (indices into files)
    fi,             \* position of the for loop over files
    pc,             \* where download_tree_iter is
    cursor,         \* position of the current select_all / join_all poll pass
    fut,            \* the state of each download_node_wrapper future
    io,             \* per future: the outcome its pending fetch has ready, if any
    events,         \* what the reporter received, in order
    result,         \* what download_tree_iter returned
    npc,            \* where one call of download_node is
    node_path,      \* download_node: tree.path of the node it downloads
    body,           \* download_node: Option, the response body
    bytes,          \* download_node: Option, the decoded content
    disk,           \* the output directory: its directories and files
    disk_before,    \* the output directory when download_node was called
    node_result     \* what download_node returned

filterVars == <<included, excluded, chk_path, chk_result>>
treeVars == <<listing, asm, tree, iter, yielded, iter_state, res_query, res_result,
              prune_pred, pruned>>
loopVars == <<max_simultaneous_downloads, reporter, files, active, fi, pc, cursor,
              fut, io, events, result>>
nodeVars == <<npc, node_path, body, bytes, disk, disk_before, node_result>>
dlVars == <<loopVars, nodeVars>>
fetchVars == <<repo, fpc, exchanges, frames, entries, fetch_result>>
vars == <<filterVars, treeVars, fetchVars, dlVars>>

None == <<>>
Some(x) == <<x>>

----
\* Bounds of the model

\* the longest flat listing handed to assembly
MaxEntries == 3
\* the largest concurrency limit tried
MaxSimultaneous == 2
\* the longest include / exclude list of a filter
MaxGlobs == 1

Names == {"a", "b"}

\* every path of one or two segments
Paths == {<<x>> : x \in Names} \cup {<<x, y>> : x \in Names, y \in Names}

----
\* src/src/filter.rs

Globs ==
    {<<"a">>, <<"*">>, <<"b", "**">>, <<"**", "a">>, <<"*", "b">>}

RECURSIVE GlobMatch(_, _)
\* glob_match(glob, path) on whole segments: "*" is one segment, "**" followed by
\* more is any number of leading segments, a trailing "**" is one or more segments
GlobMatch(glob, path) ==
    IF glob = <<>> THEN path = <<>>
    ELSE IF Head(glob) = "**" THEN
        IF Len(glob) = 1 THEN Len(path) >= 1
        ELSE \E k \in 0..Len(path) :
                GlobMatch(Tail(glob), SubSeq(path, k + 1, Len(path)))
    ELSE /\ Len(path) >= 1
         /\ Head(glob) = "*" \/ Head(glob) = Head(path)
         /\ GlobMatch(Tail(glob), Tail(path))

RECURSIVE AnyGlob(_, _, _)
\* the for loop of match_path: the first glob from position i that matches
AnyGlob(globs, i, path) ==
    IF i > Len(globs) THEN FALSE
    ELSE IF GlobMatch(globs[i], path) THEN TRUE
    ELSE AnyGlob(globs, i + 1, path)

MatchPathEmptyIsFalse(globs, path) ==
    Some(AnyGlob(globs, 1, path))

\* Filter::match_path: None for an empty list
MatchPath(globs, path) ==
    IF globs = <<>> THEN None
    ELSE Some(AnyGlob(globs, 1, path))

UnwrapOr(opt, default) == IF opt = None THEN default ELSE opt[1]

\* Filter::check
Check(inc, exc, path) ==
    LET is_included == UnwrapOr(MatchPath(inc, path), TRUE)
        is_excluded == UnwrapOr(MatchPath(exc, path), FALSE)
    IN  is_included /\ ~is_excluded

----
\* src/src/source_tree.rs: entries, assembly

Mode(kind) == IF kind = "Blob" THEN "100644" ELSE "040000"

\* the entry the remote reports for the object of kind `kind` at absolute path
\* `abs`, listed under the (relative) path `rel`
RemoteEntry(abs, rel, kind) ==
    [path |-> rel, mode |-> Mode(kind), entry_type |-> kind,
     size |-> IF kind = "Blob" THEN Len(abs) ELSE 0,
     sha |-> <<kind, abs>>, url |-> <<"url", kind, abs>>]

Entry(p, kind) == RemoteEntry(p, p, kind)

Entries == {Entry(p, k) : p \in Paths, k \in {"Blob", "Tree"}}

\* Path::parent
ParentPath(p) == IF p = <<>> THEN <<>> ELSE SubSeq(p, 1, Len(p) - 1)

\* Path::file_name
FileName(p) == IF p = <<>> THEN None ELSE Some(p[Len(p)])

MaxOf(S) == CHOOSE x \in S : \A y \in S : y <= x

\* dirs_for_path.get(p): the index of the last Tree entry inserted under p, 0 if none
DirIndex(l, p) ==
    LET S == {i \in DOMAIN l : l[i].entry_type = "Tree" /\ l[i].path = p}
    IN  IF S = {} THEN 0 ELSE MaxOf(S)

AssemblyNeverPanics(l) == FALSE
\* the unwrap of dirs_for_path.get(dir_path) panics for some node
AssemblyPanics(l) ==
    \E i \in DOMAIN l :
        ParentPath(l[i].path) # <<>> /\ DirIndex(l, ParentPath(l[i].path)) = 0

OwnerOfSeenSoFar(l, i) ==
    LET S == {j \in 1..(i - 1) :
                l[j].entry_type = "Tree" /\ l[j].path = ParentPath(l[i].path)}
    IN  IF ParentPath(l[i].path) = <<>> \/ S = {} THEN 0 ELSE MaxOf(S)
\* the directory node that entry i is pushed to: 0 is the root
OwnerOf(l, i) ==
    IF ParentPath(l[i].path) = <<>> THEN 0 ELSE DirIndex(l, ParentPath(l[i].path))

Indices(l) == [i \in 1..Len(l) |-> i]

ChildIndicesReversed(l, d) ==
    LET s == SelectSeq(Indices(l), LAMBDA i : OwnerOf(l, i) = d)
    IN  [j \in 1..Len(s) |-> s[Len(s) + 1 - j]]

\* the children of directory d, in the order the while loop pushed them
ChildIndices(l, d) ==
    SelectSeq(Indices(l), LAMBDA i : OwnerOf(l, i) = d)

RECURSIVE BuildNode(_, _)
\* From<SourceTreeInter> for SourceTree, for the node of entry i
BuildNode(l, i) ==
    LET c == ChildIndices(l, i)
    IN  [path |-> l[i].path, mode |-> l[i].mode, sha |-> l[i].sha,
         entry_type |-> l[i].entry_type, size |-> l[i].size, url |-> l[i].url,
         children |-> [j \in 1..Len(c) |-> BuildNode(l, c[j])]]

RootSha == <<"Tree", <<>>>>
RootUrl == <<"url", "Tree", <<>>>>

\* From<TreeModel> for SourceTree
Assemble(l) ==
    LET c == ChildIndices(l, 0)
    IN  [path |-> <<>>, mode |-> "", sha |-> RootSha,
         entry_type |-> "Tree", size |-> 0, url |-> RootUrl,
         children |-> [j \in 1..Len(c) |-> BuildNode(l, c[j])]]

RECURSIVE NodeAt(_, _)
\* the node a reference points to
NodeAt(t, addr) ==
    IF addr = <<>> THEN t ELSE NodeAt(t.children[Head(addr)], Tail(addr))

RECURSIVE Addresses(_)
\* the addresses of all nodes of t
Addresses(t) ==
    {<<>>} \cup UNION {{<<j>> \o a : a \in Addresses(t.children[j])} :
                        j \in DOMAIN t.children}

IsPrefix(a, b) == Len(a) <= Len(b) /\ SubSeq(b, 1, Len(a)) = a

----
\* src/src/source_tree.rs: SourceTreeIterator

\* SourceTree::iter
IterInit == <<[node |-> <<>>, pos |-> -1]>>

\* SourceTreeIterator::next: the stack left and the item returned
IterNext(t, stack) ==
    IF stack = <<>> THEN [stack |-> stack, item |-> None]
    ELSE
        LET state == stack[Len(stack)]
            popped == SubSeq(stack, 1, Len(stack) - 1)
            node == NodeAt(t, state.node)
            n == Len(node.children)
        IN  IF state.pos >= n /\ popped = <<>>
            THEN [stack |-> popped, item |-> None]
            ELSE
                LET ptr == IF state.pos = -1 THEN state.node
                           ELSE Append(state.node, state.pos + 1)
                    pos == state.pos + 1
                    s1 == IF pos < n
                          THEN Append(popped, [node |-> state.node, pos |-> pos])
                          ELSE popped
                    s2 == IF NodeAt(t, ptr).children # <<>>
                          THEN Append(s1, [node |-> ptr, pos |-> 0])
                          ELSE s1
                IN  [stack |-> s2, item |-> Some(ptr)]

RECURSIVE Drain(_, _, _)
\* the items of the iterator until it returns None
Drain(t, stack, acc) ==
    LET r == IterNext(t, stack)
    IN  IF r.item = None THEN acc
        ELSE Drain(t, r.stack, Append(acc, r.item[1]))

\* tree.iter() collected
Walk(t) == Drain(t, IterInit, <<>>)

----
\* src/src/download.rs

\* the listings of the trees handed to download_tree
DownloadListings ==
    {<<>>,
     <<Entry(<<"a">>, "Blob")>>,
     <<Entry(<<"a">>, "Blob"), Entry(<<"b">>, "Tree"), Entry(<<"b", "a">>, "Blob")>>}

\* the filters handed to download_tree
DownloadFilters ==
    {[included |-> <<>>, excluded |-> <<>>],
     [included |-> <<>>, excluded |-> <<<<"b", "**">>>>]}

PathOf(f) == NodeAt(tree[1], files[f]).path

\* the Error a failed download of files[f] returns
ErrorOf(f) == [kind |-> "RequestError", file |-> f]

DownloadStarted(f) == [type |-> "DownloadStarted", path |-> PathOf(f)]
DownloadCompleted(f) == [type |-> "DownloadCompleted", path |-> PathOf(f)]
DownloadFailed(f) ==
    [type |-> "DownloadFailed", path |-> PathOf(f), error |-> ErrorOf(f)]

\* reporter.on_event behind `if let Some(reporter) = *reporter`
Report(log, e) == IF reporter THEN Append(log, e) ELSE log

SelectedKeepsTrees(t) ==
    SelectSeq(Walk(t), LAMBDA a : Check(included, excluded, NodeAt(t, a).path))
\* lines 131-136: the Blob nodes of the iterator that pass the filter
Selected(t) ==
    SelectSeq(Walk(t), LAMBDA a :
        /\ NodeAt(t, a).entry_type = "Blob"
        /\ Check(included, excluded, NodeAt(t, a).path))

\* download_tree_iter up to the for loop
CollectFiles ==
    /\ pc = "collect"
    /\ files' = Selected(tree[1])
    /\ fut' = [f \in 1..Len(files') |-> "none"]
    /\ io' = [f \in 1..Len(files') |-> "none"]
    /\ pc' = "loop"
    /\ UNCHANGED <<max_simultaneous_downloads, reporter, active, fi, cursor,
                   events, result>>
    /\ UNCHANGED <<filterVars, treeVars, fetchVars, nodeVars>>

MustWaitNever == FALSE
MustWaitOneMore == Len(active) > max_simultaneous_downloads + 1
\* line 141: the bound check of the for loop
MustWait == Len(active) > max_simultaneous_downloads

\* the head of one iteration of `for f in &files`, and the end of the loop
LoopHead ==
    /\ pc = "loop"
    /\ IF fi > Len(files) THEN pc' = "join"
       ELSE IF MustWait THEN pc' = "select"
       ELSE pc' = "push"
    /\ cursor' = 1
    /\ UNCHANGED <<max_simultaneous_downloads, reporter, files, active, fi,
                   fut, io, events, result>>
    /\ UNCHANGED <<filterVars, treeVars, fetchVars, nodeVars>>

PushFront ==
    /\ pc = "push"
    /\ active' = <<fi>> \o active
    /\ fut' = [fut EXCEPT ![fi] = "unpolled"]
    /\ fi' = fi + 1
    /\ pc' = "loop"
    /\ UNCHANGED <<max_simultaneous_downloads, reporter, files, cursor, io,
                   events, result>>
    /\ UNCHANGED <<filterVars, treeVars, fetchVars, nodeVars>>
\* lines 148-154: the future is created (not polled) and pushed
Push ==
    /\ pc = "push"
    /\ active' = Append(active, fi)
    /\ fut' = [fut EXCEPT ![fi] = "unpolled"]
    /\ fi' = fi + 1
    /\ pc' = "loop"
    /\ UNCHANGED <<max_simultaneous_downloads, reporter, files, cursor, io,
                   events, result>>
    /\ UNCHANGED <<filterVars, treeVars, fetchVars, nodeVars>>

\* the fetch of a pending download becomes ready, with success or failure
\* (while download_tree_iter is suspended at select_all or join_all: between two
\* awaits it runs without yielding, so a fetch ready then is seen by the next poll)
IoDone(f, outcome) ==
    /\ pc \in {"select", "join"}
    /\ f \in DOMAIN fut
    /\ fut[f] = "pending"
    /\ io[f] = "none"
    /\ io' = [io EXCEPT ![f] = outcome]
    /\ UNCHANGED <<max_simultaneous_downloads, reporter, files, active, fi, pc,
                   cursor, fut, events, result>>
    /\ UNCHANGED <<filterVars, treeVars, fetchVars, nodeVars>>

PollWrapperSilent(f, sync_failure) ==
    IF fut[f] = "unpolled" THEN
        [state |-> IF sync_failure THEN "err" ELSE "pending",
         events |-> IF sync_failure
                    THEN Report(Report(events, DownloadStarted(f)), DownloadFailed(f))
                    ELSE Report(events, DownloadStarted(f))]
    ELSE IF fut[f] = "pending" /\ io[f] = "ok" THEN
        [state |-> "ok", events |-> events]
    ELSE IF fut[f] = "pending" /\ io[f] = "err" THEN
        [state |-> "err", events |-> Report(events, DownloadFailed(f))]
    ELSE [state |-> fut[f], events |-> events]

PollWrapperLateStarted(f, sync_failure) ==
    IF fut[f] = "unpolled" THEN
        [state |-> IF sync_failure THEN "err" ELSE "pending",
         events |-> IF sync_failure
                    THEN Report(Report(events, DownloadStarted(f)), DownloadFailed(f))
                    ELSE events]
    ELSE IF fut[f] = "pending" /\ io[f] = "ok" THEN
        [state |-> "ok",
         events |-> Report(Report(events, DownloadStarted(f)), DownloadCompleted(f))]
    ELSE IF fut[f] = "pending" /\ io[f] = "err" THEN
        [state |-> "err",
         events |-> Report(Report(events, DownloadStarted(f)), DownloadFailed(f))]
    ELSE [state |-> fut[f], events |-> events]
\* one poll of a download_node_wrapper future: its new state and the events
\* reported.  The first poll reports Started and runs download_node up to its
\* first await (sync_failure: the client or the request cannot be built); a
\* later poll finishes it when its fetch is ready.
PollWrapper(f, sync_failure) ==
    IF fut[f] = "unpolled" THEN
        [state |-> IF sync_failure THEN "err" ELSE "pending",
         events |-> IF sync_failure
                    THEN Report(Report(events, DownloadStarted(f)), DownloadFailed(f))
                    ELSE Report(events, DownloadStarted(f))]
    ELSE IF fut[f] = "pending" /\ io[f] = "ok" THEN
        [state |-> "ok", events |-> Report(events, DownloadCompleted(f))]
    ELSE IF fut[f] = "pending" /\ io[f] = "err" THEN
        [state |-> "err", events |-> Report(events, DownloadFailed(f))]
    ELSE [state |-> fut[f], events |-> events]

\* download_tree_iter has not returned
NotReturned == [kind |-> "None"]

\* Vec::remove
RemoveAt(s, i) == SubSeq(s, 1, i - 1) \o SubSeq(s, i + 1, Len(s))

\* the futures still in `active` are dropped when the function returns
DropActive(fs, keep) ==
    [f \in DOMAIN fs |->
        IF f = keep THEN fs[f]
        ELSE IF fs[f] = "pending" THEN "cancelled"
        ELSE IF fs[f] = "unpolled" THEN "dropped"
        ELSE fs[f]]

\* lines 143-145: select_all polls the active futures in order; the first one
\* that is ready ends the wait: `result?` returns its error, dropping the rest
SelectPoll ==
    /\ pc = "select"
    /\ cursor <= Len(active)
    /\ \E sync_failure \in BOOLEAN :
        LET f == active[cursor]
            r == PollWrapper(f, sync_failure)
        IN  /\ events' = r.events
            /\ IF r.state = "err"
               THEN /\ fut' = DropActive([fut EXCEPT ![f] = "err"], f)
                    /\ result' = [kind |-> "Err", error |-> ErrorOf(f)]
                    /\ pc' = "done"
                    /\ active' = <<>>
                    /\ cursor' = 1
               ELSE IF r.state = "ok"
               THEN /\ fut' = [fut EXCEPT ![f] = "ok"]
                    /\ active' = RemoveAt(active, cursor)
                    /\ pc' = "push"
                    /\ cursor' = 1
                    /\ result' = result
               ELSE /\ fut' = [fut EXCEPT ![f] = r.state]
                    /\ cursor' = cursor + 1
                    /\ UNCHANGED <<active, pc, result>>
    /\ UNCHANGED <<max_simultaneous_downloads, reporter, files, fi, io>>
    /\ UNCHANGED <<filterVars, treeVars, fetchVars, nodeVars>>

WakeLost == FALSE
\* a poll pass found nothing ready; a fetch that became ready wakes the task and
\* the pass starts again
Wake ==
    /\ pc \in {"select", "join"}
    /\ cursor > Len(active)
    /\ \E i \in DOMAIN active : fut[active[i]] = "pending" /\ io[active[i]] # "none"
    /\ cursor' = 1
    /\ UNCHANGED <<max_simultaneous_downloads, reporter, files, active, fi, pc,
                   fut, io, events, result>>
    /\ UNCHANGED <<filterVars, treeVars, fetchVars, nodeVars>>

\* line 157: join_all polls every future that is not done yet
JoinPoll ==
    /\ pc = "join"
    /\ cursor <= Len(active)
    /\ \E sync_failure \in BOOLEAN :
        LET f == active[cursor]
            r == PollWrapper(f, sync_failure)
        IN  /\ events' = r.events
            /\ fut' = [fut EXCEPT ![f] = r.state]
    /\ cursor' = cursor + 1
    /\ UNCHANGED <<max_simultaneous_downloads, reporter, files, active, fi, pc,
                   io, result>>
    /\ UNCHANGED <<filterVars, treeVars, fetchVars, nodeVars>>

\* lines 157-163: the first Err of join_all's results, in the order of `active`,
\* else Ok(files)
JoinResult(fs, act, sel) ==
    LET failed == {i \in DOMAIN act : fs[act[i]] = "err"}
    IN  IF failed = {} THEN [kind |-> "Ok", files |-> sel]
        ELSE [kind |-> "Err",
              error |-> ErrorOf(act[CHOOSE i \in failed : \A j \in failed : i <= j])]

\* join_all is ready once every future is done
JoinReturn ==
    /\ pc = "join"
    /\ cursor > Len(active)
    /\ \A i \in DOMAIN active : fut[active[i]] \in {"ok", "err"}
    /\ result' = JoinResult(fut, active, files)
    /\ pc' = "done"
    /\ active' = <<>>
    /\ UNCHANGED <<max_simultaneous_downloads, reporter, files, fi, cursor, fut,
                   io, events>>
    /\ UNCHANGED <<filterVars, treeVars, fetchVars, nodeVars>>

FilterIdle ==
    /\ chk_path = <<>>
    /\ chk_result = None

TreeIdle ==
    /\ iter = <<>>
    /\ yielded = <<>>
    /\ iter_state = "idle"
    /\ res_query = None
    /\ res_result = None
    /\ prune_pred = None
    /\ pruned = None

FetchIdle ==
    /\ repo = <<>>
    /\ fpc = "idle"
    /\ exchanges = <<>>
    /\ frames = <<>>
    /\ entries = <<>>
    /\ fetch_result = NotReturned

\* no call of download_node
NodeIdle ==
    /\ npc = "idle"
    /\ node_path = <<>>
    /\ body = None
    /\ bytes = None
    /\ disk = [dirs |-> {}, files |-> {}]
    /\ disk_before = [dirs |-> {}, files |-> {}]
    /\ node_result = NotReturned

\* no call of download_tree_iter
LoopIdle ==
    /\ max_simultaneous_downloads = 0
    /\ reporter = FALSE
    /\ files = <<>>
    /\ active = <<>>
    /\ fi = 1
    /\ pc = "idle"
    /\ cursor = 1
    /\ fut = <<>>
    /\ io = <<>>
    /\ events = <<>>
    /\ result = NotReturned

DownloadIdle == LoopIdle /\ NodeIdle

\* a call of Downloader::download_tree(config, tree, filter)
InitDownload ==
    /\ \E flt \in DownloadFilters :
        /\ included = flt.included
        /\ excluded = flt.excluded
    /\ FilterIdle
    /\ listing \in DownloadListings
    /\ asm = "done"
    /\ tree = Some(Assemble(listing))
    /\ TreeIdle
    /\ FetchIdle
    /\ max_simultaneous_downloads \in 0..MaxSimultaneous
    /\ reporter \in BOOLEAN
    /\ files = <<>>
    /\ active = <<>>
    /\ fi = 1
    /\ pc = "collect"
    /\ cursor = 1
    /\ fut = <<>>
    /\ io = <<>>
    /\ events = <<>>
    /\ result = NotReturned
    /\ NodeIdle

NextDownload ==
    \/ CollectFiles
    \/ LoopHead
    \/ Push
    \/ \E f \in DOMAIN fut, outcome \in {"ok", "err"} : IoDone(f, outcome)
    \/ SelectPoll
    \/ Wake
    \/ JoinPoll
    \/ JoinReturn

SpecDownload == InitDownload /\ [][NextDownload]_vars

\* the steps of the for loop and of the final join of download_tree_iter
LoopStep == LoopHead \/ Push \/ SelectPoll \/ Wake \/ JoinPoll \/ JoinReturn

\* the answer of a pending fetch arrives
IoStep == \E f \in DOMAIN fut, outcome \in {"ok", "err"} : IoDone(f, outcome)

\* once the selection is collected, the executor keeps polling the task while it
\* can make progress, and every request that was sent is eventually answered
FairSpecDownload ==
    SpecDownload /\ WF_vars(LoopStep) /\ WF_vars(IoStep)

----
\* Claims about the download loop (SpecDownload)

CountEvents(type, path) ==
    Cardinality({i \in DOMAIN events : events[i].type = type /\ events[i].path = path})

CountType(type) == Cardinality({i \in DOMAIN events : events[i].type = type})

\* downloads that have reported Started and neither Completed nor Failed
InFlight ==
    CountType("DownloadStarted")
        - CountType("DownloadCompleted") - CountType("DownloadFailed")

SelectedPaths == {PathOf(f) : f \in DOMAIN files}

Instances(p, state) == {f \in DOMAIN files : PathOf(f) = p /\ fut[f] = state}

\* C1: with max_simultaneous_downloads = k >= 1, the number of downloads that
\* have reported Started and not yet Completed or Failed never exceeds k.
C1_BoundedConcurrency ==
    (reporter /\ max_simultaneous_downloads >= 1)
        => InFlight <= max_simultaneous_downloads

\* C2: when download_tree_iter has returned (Ok or Err), the reporter has received,
\* for every selected file, exactly one Started followed by exactly one of
\* Completed or Failed.
C2_OneStartedOneTerminal ==
    (reporter /\ pc = "done") =>
        \A p \in SelectedPaths :
            /\ CountEvents("DownloadStarted", p) = 1
            /\ CountEvents("DownloadCompleted", p) + CountEvents("DownloadFailed", p) = 1
            /\ \A i, j \in DOMAIN events :
                (/\ events[i].path = p /\ events[j].path = p
                 /\ events[i].type = "DownloadStarted"
                 /\ events[j].type # "DownloadStarted") => i < j

\* C3: when download_tree_iter returns an error, every download that had started
\* has finished (Completed or Failed): none was abandoned in flight.
C3_ErrorOnlyAfterDrain ==
    (pc = "done" /\ result.kind = "Err") =>
        /\ \A f \in DOMAIN fut : fut[f] # "cancelled"
        /\ reporter => InFlight = 0

\* C4: if exactly one download fails, download_tree_iter returns Err, the reporter
\* has received Failed for the failing file, and Completed for every file whose
\* download succeeded before the return.
C4_PartialFailure ==
    (/\ reporter
     /\ pc = "done"
     /\ Cardinality({f \in DOMAIN fut : fut[f] = "err"}) = 1) =>
        /\ result.kind = "Err"
        /\ \A p \in SelectedPaths :
            /\ CountEvents("DownloadFailed", p) = Cardinality(Instances(p, "err"))
            /\ CountEvents("DownloadCompleted", p) = Cardinality(Instances(p, "ok"))
        /\ \A f \in DOMAIN fut :
            fut[f] = "err" => \E i \in DOMAIN events : events[i] = DownloadFailed(f)

\* exactly one download failed, others had succeeded, and the operation returned
C4_Witness ==
    /\ reporter
    /\ pc = "done"
    /\ max_simultaneous_downloads >= 1
    /\ Cardinality({f \in DOMAIN fut : fut[f] = "err"}) = 1
    /\ Cardinality({f \in DOMAIN fut : fut[f] = "ok"}) >= 2
    /\ result.kind = "Err"

\* a comes before b in the pre-order of a tree: a is an ancestor of b, or a lies
\* in an earlier subtree
PreOrderBefore(a, b) ==
    \/ IsPrefix(a, b) /\ a # b
    \/ \E k \in 1..Len(a) :
        /\ k <= Len(b)
        /\ SubSeq(a, 1, k - 1) = SubSeq(b, 1, k - 1)
        /\ a[k] < b[k]

\* the Blob nodes of the tree whose paths pass both gates of the filter
PassingBlobs ==
    {a \in Addresses(tree[1]) :
        /\ NodeAt(tree[1], a).entry_type = "Blob"
        /\ \/ included = <<>>
           \/ \E g \in DOMAIN included : GlobMatch(included[g], NodeAt(tree[1], a).path)
        /\ \A g \in DOMAIN excluded : ~GlobMatch(excluded[g], NodeAt(tree[1], a).path)}

\* C11: when download_tree_iter returns Ok(list), list holds every Blob node that
\* passes the filter, in walk order, each once, and every file of the list has
\* received a Completed event.
C11_OkListIsSelection ==
    (pc = "done" /\ result.kind = "Ok") =>
        /\ {result.files[i] : i \in DOMAIN result.files} = PassingBlobs
        /\ \A i, j \in DOMAIN result.files :
            i < j => PreOrderBefore(result.files[i], result.files[j])
        /\ reporter =>
            \A i \in DOMAIN result.files :
                CountEvents("DownloadCompleted", NodeAt(tree[1], result.files[i]).path) >= 1

\* the downloads that were polled and have not resolved
Running == {f \in DOMAIN fut : fut[f] = "pending"}

\* C12: with max_simultaneous_downloads = 0 the loop works as one worker: at most
\* one download is in flight at any instant, and once the selection is collected
\* the run always comes to its return, with every selected file launched and
\* finished when no download failed.
C12_ZeroActsAsOneWorker ==
    /\ [](max_simultaneous_downloads = 0 =>
            /\ Cardinality(Running) <= 1
            /\ Len(active) <= 1
            /\ reporter => InFlight <= 1)
    /\ (max_simultaneous_downloads = 0 /\ pc = "loop") ~>
            (/\ pc = "done"
             /\ (\A f \in DOMAIN fut : fut[f] # "err") =>
                    /\ result.kind = "Ok"
                    /\ \A f \in DOMAIN files : fut[f] = "ok")

\* a run with max_simultaneous_downloads = 0 downloaded four files one by one
C12_Witness ==
    /\ max_simultaneous_downloads = 0
    /\ reporter
    /\ pc = "done"
    /\ Len(files) >= 4
    /\ result.kind = "Ok"
    /\ CountType("DownloadCompleted") = Len(files)

\* the positions of the Failed events in the reporter's log
FailedEvents == {i \in DOMAIN events : events[i].type = "DownloadFailed"}

\* C13: when download_tree_iter returns an error, it is the error carried by the
\* Failed event that was reported first, whatever number of downloads failed.
C13_FirstFailureIsReturned ==
    (reporter /\ pc = "done" /\ result.kind = "Err") =>
        /\ FailedEvents # {}
        /\ result.error =
            events[CHOOSE i \in FailedEvents : \A j \in FailedEvents : i <= j].error

\* the Started events of the reporter's log, in the order they were reported
StartedEvents == SelectSeq(events, LAMBDA e : e.type = "DownloadStarted")

\* the downloads that have been launched (polled at least once)
Launched == {f \in DOMAIN fut : fut[f] \in {"pending", "ok", "err", "cancelled"}}

\* C14: downloads are launched in the order of the selected list: the downloads
\* launched so far are the first ones of the list, and the k-th Started event is
\* the one of the k-th file of the list, whatever order the downloads finish in.
C14_LaunchFollowsListOrder ==
    /\ \A f \in Launched : \A g \in 1..f : g \in Launched
    /\ reporter =>
        /\ Len(StartedEvents) = Cardinality(Launched)
        /\ \A k \in DOMAIN StartedEvents : StartedEvents[k] = DownloadStarted(k)

\* three downloads were launched and a later one finished before an earlier one
C14_Witness ==
    /\ reporter
    /\ Len(StartedEvents) >= 3
    /\ \E f, g \in DOMAIN fut :
        /\ f < g
        /\ PathOf(f) # PathOf(g)
        /\ fut[f] = "pending"
        /\ fut[g] = "ok"

\* C18: every download event and every download future is for a Blob node whose
\* path passes the filter, never for a Tree node or a rejected path; nothing is
\* reported or launched before the selection is collected, and the selection is
\* not changed afterwards.
C18_OnlySelectedBlobs ==
    /\ [](/\ \A i \in DOMAIN events :
                \E a \in PassingBlobs : events[i].path = NodeAt(tree[1], a).path
          /\ \A f \in DOMAIN fut : files[f] \in PassingBlobs
          /\ pc = "collect" => (events = <<>> /\ fut = <<>>))
    /\ [][pc # "collect" => files' = files]_vars

\* a run over a tree with a directory and a blob the filter rejects has returned
\* after reporting the downloads of the blob the filter accepts
C18_Witness ==
    /\ reporter
    /\ pc = "done"
    /\ \E a \in Addresses(tree[1]) :
        /\ NodeAt(tree[1], a).entry_type = "Blob"
        /\ a \notin PassingBlobs
    /\ \E a \in Addresses(tree[1]) : a # <<>> /\ NodeAt(tree[1], a).entry_type = "Tree"
    /\ CountType("DownloadCompleted") >= 1

\* the events of the given type and path among the first k events of the log
CountUpTo(k, type, path) ==
    Cardinality({i \in 1..k : events[i].type = type /\ events[i].path = path})

\* C21: a download has reported Started by the time its fetch is under way, it
\* reports Completed exactly when it resolves Ok and Failed, with the error it
\* returns, exactly when it resolves Err, and at no point of the log has a path
\* more terminal events than Started events.
C21_EventsFollowOutcome ==
    /\ ~reporter => events = <<>>
    /\ reporter =>
        /\ \A p \in SelectedPaths :
            /\ CountEvents("DownloadStarted", p)
                    = Cardinality({f \in Launched : PathOf(f) = p})
            /\ CountEvents("DownloadCompleted", p) = Cardinality(Instances(p, "ok"))
            /\ CountEvents("DownloadFailed", p) = Cardinality(Instances(p, "err"))
            /\ \A k \in DOMAIN events :
                CountUpTo(k, "DownloadCompleted", p) + CountUpTo(k, "DownloadFailed", p)
                    <= CountUpTo(k - 1, "DownloadStarted", p)
        /\ \A f \in DOMAIN fut :
            fut[f] = "err" <=> \E i \in DOMAIN events : events[i] = DownloadFailed(f)
        /\ \A i \in DOMAIN events : events[i].path \in SelectedPaths
    /\ \A f \in DOMAIN fut : io[f] # "none" => f \in Launched
    /\ (pc = "done" /\ result.kind = "Err") =>
            /\ fut[result.error.file] = "err"
            /\ reporter => \E i \in DOMAIN events : events[i].type = "DownloadFailed"
                                /\ events[i].error = result.error

\* at one instant one download has completed, one has failed and one is waiting
\* for its fetch
C21_Witness ==
    /\ reporter
    /\ \E f, g, h \in DOMAIN fut :
        /\ fut[f] = "ok"
        /\ fut[g] = "err"
        /\ fut[h] = "pending"
    /\ CountType("DownloadStarted") = 3
    /\ CountType("DownloadCompleted") = 1
    /\ CountType("DownloadFailed") = 1

\* C22: `active` never holds more than max_simultaneous_downloads + 1 futures, so
\* never more than max_simultaneous_downloads + 1 downloads are in flight.
C22_AtMostLimitPlusOne ==
    /\ Len(active) <= max_simultaneous_downloads + 1
    /\ Cardinality(Running) <= max_simultaneous_downloads + 1
    /\ reporter => InFlight <= max_simultaneous_downloads + 1

\* with a limit of two, three downloads are in flight and a fourth file waits
C22_Witness ==
    /\ reporter
    /\ max_simultaneous_downloads = 2
    /\ Len(files) = 4
    /\ Len(active) = 3
    /\ Cardinality(Running) = 3
    /\ InFlight = 3
    /\ pc = "select"

\* C24: in one run of download_tree no two downloads that are in flight at the
\* same time write to the same path, and no path is reported Started twice.
C24_EachPathFetchedOnce ==
    /\ \A f, g \in Running : f # g => PathOf(f) # PathOf(g)
    /\ \A f, g \in Launched : f # g => PathOf(f) # PathOf(g)
    /\ reporter => \A p \in SelectedPaths : CountEvents("DownloadStarted", p) <= 1

\* C27: when every fetch that was sent is eventually answered, download_tree_iter
\* returns Ok or Err from every point of its loop, and every wait at the bound
\* check comes to an end.
C27_DownloadTerminates ==
    /\ (pc = "loop") ~> (pc = "done" /\ result.kind \in {"Ok", "Err"})
    /\ (pc = "select") ~> (pc # "select")
    /\ (pc = "join") ~> (pc = "done")

\* a run of four files under a limit of one has waited at the bound check and
\* returned Ok
C27_Witness ==
    /\ reporter
    /\ max_simultaneous_downloads = 1
    /\ Len(files) = 4
    /\ pc = "done"
    /\ result.kind = "Ok"
    /\ CountType("DownloadCompleted") = 4

----
\* src/src/source_tree.rs: resolve

\* the check of resolve_inner on the terminal node
KindAccepted(kind, find_blob) ==
    \/ find_blob = None
    \/ find_blob = Some(TRUE) /\ kind = "Blob"
    \/ find_blob = Some(FALSE) /\ kind = "Tree"

RECURSIVE FirstChildNamed(_, _, _)
\* the for loop of resolve_inner: the first child from position j whose file name
\* is `name`, 0 if none
FirstChildNamed(node, j, name) ==
    IF j > Len(node.children) THEN 0
    ELSE IF FileName(node.children[j].path) = Some(name) THEN j
    ELSE FirstChildNamed(node, j + 1, name)

RECURSIVE ResolveInnerAnyKind(_, _, _, _)
ResolveInnerAnyKind(t, addr, path, find_blob) ==
    IF path = <<>> THEN Some(addr)
    ELSE LET j == FirstChildNamed(NodeAt(t, addr), 1, Head(path))
         IN  IF j = 0 THEN None
             ELSE ResolveInnerAnyKind(t, Append(addr, j), Tail(path), find_blob)

RECURSIVE ResolveInner(_, _, _, _)
\* SourceTree::resolve_inner on the node at addr
ResolveInner(t, addr, path, find_blob) ==
    IF path = <<>> THEN
        IF KindAccepted(NodeAt(t, addr).entry_type, find_blob)
        THEN Some(addr) ELSE None
    ELSE LET j == FirstChildNamed(NodeAt(t, addr), 1, Head(path))
         IN  IF j = 0 THEN None
             ELSE ResolveInner(t, Append(addr, j), Tail(path), find_blob)

\* SourceTree::resolve
Resolve(t, path, find_blob) == ResolveInner(t, <<>>, path, find_blob)

\* SourceTree::resolve_any: it passes Some(false) to resolve
ResolveAny(t, path) == Resolve(t, path, Some(FALSE))

\* the predicates handed to prune: functions of one node
PrunePredicates == {"is_blob", "is_tree", "not_named_a", "has_no_children"}

\* predicate(&node)
Holds(predicate, node) ==
    CASE predicate = "is_blob" -> node.entry_type = "Blob"
      [] predicate = "is_tree" -> node.entry_type = "Tree"
      [] predicate = "not_named_a" -> FileName(node.path) # Some("a")
      [] predicate = "has_no_children" -> node.children = <<>>

PruneShallow(node, predicate) ==
    [path |-> node.path, mode |-> node.mode, sha |-> node.sha,
     entry_type |-> node.entry_type, size |-> node.size, url |-> node.url,
     children |-> SelectSeq(node.children, LAMBDA c : Holds(predicate, c))]
RECURSIVE Prune(_, _)
\* SourceTree::prune: the children that pass the predicate, each pruned in turn,
\* under a copy of the node's own fields
Prune(node, predicate) ==
    LET kept == SelectSeq(node.children, LAMBDA c : Holds(predicate, c))
    IN  [path |-> node.path, mode |-> node.mode, sha |-> node.sha,
         entry_type |-> node.entry_type, size |-> node.size, url |-> node.url,
         children |-> [j \in 1..Len(kept) |-> Prune(kept[j], predicate)]]

----
\* SourceTree::get after the fetch: assembly, then the walker and resolve

RECURSIVE ListingsOfLen(_)
\* the flat listings of n entries with distinct paths
ListingsOfLen(n) ==
    IF n = 0 THEN {<<>>}
    ELSE {Append(x[1], x[2]) :
            x \in {y \in ListingsOfLen(n - 1) \X Entries :
                    \A i \in DOMAIN y[1] : y[1][i].path # y[2].path}}

Listings == UNION {ListingsOfLen(n) : n \in 0..MaxEntries}

\* the paths and kinds resolve is asked for
QueryPaths == Paths \cup {<<>>, <<"a", "b", "a">>}
FindBlob == {None, Some(TRUE), Some(FALSE)}

\* `tree.into()` of SourceTree::get
AssembleTree ==
    /\ asm = "pending"
    /\ IF AssemblyPanics(listing)
       THEN asm' = "panic" /\ tree' = None
       ELSE asm' = "done" /\ tree' = Some(Assemble(listing))
    /\ UNCHANGED <<listing, iter, yielded, iter_state, res_query, res_result,
                   prune_pred, pruned>>
    /\ UNCHANGED <<filterVars, fetchVars, dlVars>>

\* tree.iter()
IterStart ==
    /\ asm = "done"
    /\ iter_state = "idle"
    /\ res_query = None
    /\ iter' = IterInit
    /\ iter_state' = "running"
    /\ UNCHANGED <<listing, asm, tree, yielded, res_query, res_result,
                   prune_pred, pruned>>
    /\ UNCHANGED <<filterVars, fetchVars, dlVars>>

\* one call of SourceTreeIterator::next
IterStep ==
    /\ iter_state = "running"
    /\ LET r == IterNext(tree[1], iter)
       IN  /\ iter' = r.stack
           /\ IF r.item = None
              THEN iter_state' = "done" /\ yielded' = yielded
              ELSE iter_state' = iter_state /\ yielded' = Append(yielded, r.item[1])
    /\ UNCHANGED <<listing, asm, tree, res_query, res_result,
                   prune_pred, pruned>>
    /\ UNCHANGED <<filterVars, fetchVars, dlVars>>

\* one call of tree.resolve(path, find_blob)
ResolveCall(path, find_blob) ==
    /\ asm = "done"
    /\ iter_state = "idle"
    /\ prune_pred = None
    /\ res_query' = Some([fn |-> "resolve", path |-> path, find_blob |-> find_blob])
    /\ res_result' = Resolve(tree[1], path, find_blob)
    /\ UNCHANGED <<listing, asm, tree, iter, yielded, iter_state, prune_pred, pruned>>
    /\ UNCHANGED <<filterVars, fetchVars, dlVars>>

\* one call of tree.resolve_any(path)
ResolveAnyCall(path) ==
    /\ asm = "done"
    /\ iter_state = "idle"
    /\ prune_pred = None
    /\ res_query' = Some([fn |-> "resolve_any", path |-> path, find_blob |-> Some(FALSE)])
    /\ res_result' = ResolveAny(tree[1], path)
    /\ UNCHANGED <<listing, asm, tree, iter, yielded, iter_state, prune_pred, pruned>>
    /\ UNCHANGED <<filterVars, fetchVars, dlVars>>

\* one call of tree.prune(predicate)
PruneCall(predicate) ==
    /\ asm = "done"
    /\ iter_state = "idle"
    /\ res_query = None
    /\ prune_pred' = Some(predicate)
    /\ pruned' = Some(Prune(tree[1], predicate))
    /\ UNCHANGED <<listing, asm, tree, iter, yielded, iter_state, res_query, res_result>>
    /\ UNCHANGED <<filterVars, fetchVars, dlVars>>

InitTree ==
    /\ included = <<>>
    /\ excluded = <<>>
    /\ FilterIdle
    /\ listing \in Listings
    /\ asm = "pending"
    /\ tree = None
    /\ TreeIdle
    /\ FetchIdle
    /\ DownloadIdle

NextTree ==
    \/ AssembleTree
    \/ IterStart
    \/ IterStep
    \/ \E path \in QueryPaths, find_blob \in FindBlob : ResolveCall(path, find_blob)
    \/ \E path \in QueryPaths : ResolveAnyCall(path)
    \/ \E predicate \in PrunePredicates : PruneCall(predicate)

SpecTree == InitTree /\ [][NextTree]_vars

----
\* Claims about the tree (SpecTree)

\* the fields of a node that come from its flat entry
EntryOf(node) ==
    [path |-> node.path, mode |-> node.mode, entry_type |-> node.entry_type,
     size |-> node.size, sha |-> node.sha, url |-> node.url]

\* C5: the walker yields every node of the tree exactly once, and every node
\* before each of its descendants.
C5_WalkEveryNodeOnce ==
    iter_state = "done" =>
        /\ Len(yielded) = Cardinality(Addresses(tree[1]))
        /\ {yielded[i] : i \in DOMAIN yielded} = Addresses(tree[1])
        /\ \A i, j \in DOMAIN yielded :
            (yielded[i] # yielded[j] /\ IsPrefix(yielded[i], yielded[j])) => i < j

\* C7: in the tree assembled from a listing with distinct paths in which every
\* directory prefix has its Tree entry, the children of every node are exactly
\* the entries whose parent directory is the node's path, in listing order.
C7_ChildrenAreEntriesOfParent ==
    asm = "done" =>
        \A a \in Addresses(tree[1]) :
            LET node == NodeAt(tree[1], a)
            IN  [j \in 1..Len(node.children) |-> EntryOf(node.children[j])]
                    = SelectSeq(listing, LAMBDA e : ParentPath(e.path) = node.path)

\* a tree whose root has two children, the second a directory listed after its
\* own child
C7_Witness ==
    /\ asm = "done"
    /\ Len(listing) = 3
    /\ Len(tree[1].children) = 2
    /\ Len(tree[1].children[2].children) = 1
    /\ listing[1].path = <<"b", "a">>

\* the nodes of the tree at path p whose kind the query accepts
NodesAt(p, find_blob) ==
    {a \in Addresses(tree[1]) :
        /\ NodeAt(tree[1], a).path = p
        /\ KindAccepted(NodeAt(tree[1], a).entry_type, find_blob)}

\* C8: resolve with the path and kind of a listing entry returns the node with that
\* entry's path, mode, sha, size and url; resolve returns None when a segment of
\* the path has no matching child or the node's kind is not the requested one.
C8_ResolveRoundTrip ==
    (asm = "done" /\ res_query # None) =>
        LET q == res_query[1]
        IN  /\ \A i \in DOMAIN listing :
                (/\ q.path = listing[i].path
                 /\ q.find_blob = Some(listing[i].entry_type = "Blob")) =>
                    /\ res_result # None
                    /\ EntryOf(NodeAt(tree[1], res_result[1])) = listing[i]
            /\ IF NodesAt(q.path, q.find_blob) = {}
               THEN res_result = None
               ELSE res_result # None /\ res_result[1] \in NodesAt(q.path, q.find_blob)

\* resolve_blob found the nested blob a/b of a three-entry listing
C8_Witness ==
    /\ asm = "done"
    /\ Len(listing) = 3
    /\ res_query = Some([fn |-> "resolve", path |-> <<"a", "b">>, find_blob |-> Some(TRUE)])
    /\ res_result # None
    /\ Len(res_result[1]) = 2
    /\ NodeAt(tree[1], res_result[1]).sha = <<"Blob", <<"a", "b">>>>

\* resolve_tree was asked for a path that is a blob, and returned None
C8_WitnessNone ==
    /\ asm = "done"
    /\ res_query = Some([fn |-> "resolve", path |-> <<"a", "b">>, find_blob |-> Some(FALSE)])
    /\ \E i \in DOMAIN listing : listing[i] = Entry(<<"a", "b">>, "Blob")
    /\ res_result = None

\* C15: resolve_any(path) returns what resolve(path, None) returns: the node at
\* the path whether it is a Blob or a Tree, and None only if a segment is missing.
C15_ResolveAnyIsResolveNone ==
    (asm = "done" /\ res_query # None /\ res_query[1].fn = "resolve_any") =>
        /\ res_result = Resolve(tree[1], res_query[1].path, None)
        /\ res_result = None <=> NodesAt(res_query[1].path, None) = {}

RECURSIVE PreOrderFrom(_, _, _)
\* the addresses of the subtrees of t's children from position j on, each
\* subtree in pre-order, relative to t
PreOrderFrom(t, j, acc) ==
    IF j > Len(t.children) THEN acc
    ELSE LET sub == PreOrderFrom(t.children[j], 1, <<<<>>>>)
         IN  PreOrderFrom(t, j + 1, acc \o [k \in 1..Len(sub) |-> <<j>> \o sub[k]])

\* the addresses of all nodes of t, every node before its descendants and the
\* subtrees of a node in the order of its children
PreOrder(t) == PreOrderFrom(t, 1, <<<<>>>>)

\* the predicate holds on the node at address a of t and on each of its ancestors
\* below the root
HoldsDownTo(t, predicate, a) ==
    \A k \in 1..Len(a) : Holds(predicate, NodeAt(t, SubSeq(a, 1, k)))

\* C16: prune(predicate) returns a tree with a copy of the root and, in the same
\* relative order and at the same depth, copies of exactly the nodes for which
\* the predicate holds on the node and on all its ancestors below the root; the
\* original tree is left as it was.
C16_PruneKeepsPassingChains ==
    (pruned # None) =>
        LET kept == SelectSeq(PreOrder(tree[1]),
                              LAMBDA a : HoldsDownTo(tree[1], prune_pred[1], a))
            new == PreOrder(pruned[1])
        IN  /\ Len(new) = Len(kept)
            /\ \A k \in DOMAIN new :
                /\ EntryOf(NodeAt(pruned[1], new[k])) = EntryOf(NodeAt(tree[1], kept[k]))
                /\ Len(new[k]) = Len(kept[k])
            /\ EntryOf(pruned[1]) = EntryOf(tree[1])
            /\ tree = Some(Assemble(listing))

\* prune dropped a blob that lies under a kept directory, beside a kept directory
C16_Witness ==
    /\ prune_pred = Some("is_tree")
    /\ pruned # None
    /\ Cardinality(Addresses(tree[1])) = 4
    /\ Cardinality(Addresses(pruned[1])) = 3
    /\ \E a \in Addresses(pruned[1]) : Len(a) = 2
    /\ \E a \in Addresses(tree[1]) : Len(a) = 2 /\ NodeAt(tree[1], a).entry_type = "Blob"

\* prune rejected the root's kind and still returned the root, without children
C16_WitnessRoot ==
    /\ prune_pred = Some("is_blob")
    /\ pruned # None
    /\ tree[1].children # <<>>
    /\ \A j \in DOMAIN tree[1].children : tree[1].children[j].entry_type = "Tree"
    /\ pruned[1].children = <<>>

\* entry i of the listing lies in a directory that has no Tree entry of its own
Orphan(i) ==
    /\ ParentPath(listing[i].path) # <<>>
    /\ ~\E j \in DOMAIN listing :
            /\ listing[j].entry_type = "Tree"
            /\ listing[j].path = ParentPath(listing[i].path)

\* C17: a listing with an entry whose non-empty parent directory has no Tree entry
\* is never assembled: assembly aborts and there is no tree; a tree that was
\* assembled holds every entry of the listing under the node of its parent path.
C17_OrphanAbortsAssembly ==
    /\ (asm # "pending" /\ \E i \in DOMAIN listing : Orphan(i)) =>
            asm = "panic" /\ tree = None
    /\ asm = "done" =>
            \A i \in DOMAIN listing :
                \E a \in Addresses(tree[1]) :
                    /\ a # <<>>
                    /\ EntryOf(NodeAt(tree[1], a)) = listing[i]
                    /\ NodeAt(tree[1], ParentPath(a)).path = ParentPath(listing[i].path)

\* assembly aborted on an entry whose parent path is listed, but as a Blob
C17_Witness ==
    /\ asm = "panic"
    /\ tree = None
    /\ \E i, j \in DOMAIN listing :
        /\ Orphan(i)
        /\ listing[j].path = ParentPath(listing[i].path)
        /\ listing[j].entry_type = "Blob"
    /\ \E k \in DOMAIN listing : listing[k].entry_type = "Tree"

\* the orders in which n entries can be listed
Orders(n) == {f \in [1..n -> 1..n] : \A i, j \in 1..n : f[i] = f[j] => i = j}

\* a tree without the order of siblings: for every node its fields and the
\* fields of the node it hangs under
Shape(t) ==
    {[node |-> EntryOf(NodeAt(t, a)), under |-> EntryOf(NodeAt(t, ParentPath(a)))] :
        a \in Addresses(t) \ {<<>>}}

\* the tree has just been assembled: no walk, resolve or prune was made yet
\* (none of them changes the tree or the listing)
JustAssembled ==
    asm = "done" /\ iter_state = "idle" /\ res_query = None /\ prune_pred = None

\* C23: the entries of a listing that assembles, listed in any other order,
\* assemble too, and to the same tree up to the order of siblings.
C23_AssemblyIgnoresListingOrder ==
    JustAssembled =>
        \A f \in Orders(Len(listing)) :
            LET other == [i \in 1..Len(listing) |-> listing[f[i]]]
            IN  /\ ~AssemblyPanics(other)
                /\ EntryOf(Assemble(other)) = EntryOf(tree[1])
                /\ Shape(Assemble(other)) = Shape(tree[1])

\* a tree of three nodes assembled from a listing that names the blob b/a first
\* and its directory b last
C23_Witness ==
    /\ asm = "done"
    /\ Len(listing) = 3
    /\ listing[1] = Entry(<<"b", "a">>, "Blob")
    /\ listing[3] = Entry(<<"b">>, "Tree")
    /\ Cardinality(Shape(tree[1])) = 3
    /\ \E a \in Addresses(tree[1]) : Len(a) = 2

----
\* Filter::new, Filter::all and Filter::check on their own

RECURSIVE GlobListsOfLen(_)
GlobListsOfLen(n) ==
    IF n = 0 THEN {<<>>}
    ELSE {Append(l, g) : l \in GlobListsOfLen(n - 1), g \in Globs}

GlobLists == UNION {GlobListsOfLen(n) : n \in 0..MaxGlobs}

\* one call of filter.check(path)
CheckCall(path) ==
    /\ chk_path' = path
    /\ chk_result' = Some(Check(included, excluded, path))
    /\ UNCHANGED <<included, excluded>>
    /\ UNCHANGED <<treeVars, fetchVars, dlVars>>

\* Filter::new(included, excluded); Filter::all() is both lists empty
InitFilter ==
    /\ included \in GlobLists
    /\ excluded \in GlobLists
    /\ FilterIdle
    /\ listing = <<>>
    /\ asm = "idle"
    /\ tree = None
    /\ TreeIdle
    /\ FetchIdle
    /\ DownloadIdle

NextFilter == \E path \in QueryPaths : CheckCall(path)

SpecFilter == InitFilter /\ [][NextFilter]_vars

C9_WitnessAll ==
    /\ included = <<>>
    /\ excluded = <<>>
    /\ chk_path = <<"a", "b">>
    /\ chk_result = Some(TRUE)

----
\* src/src/source_tree.rs: TreeModel::get_tree, get_tree_manual, get_tree_request

\* the branch SourceTree::get is asked for
Branch == "master"

\* the error payloads the remote may answer with
Messages == {"rate limit exceeded", "not found"}

\* the repositories: listings with distinct paths whose every directory is listed
Repos == {l \in Listings : ~AssemblyPanics(l)}

\* the directory a ref addresses: the root for the branch, else the tree of that sha
DirOfRef(ref) == IF ref = Branch THEN <<>> ELSE ref[2]

\* the remote's listing of directory dir without the recursive flag: its
\* immediate children, each under its own name
ListDir(r, dir) ==
    LET own == SelectSeq(r, LAMBDA e : ParentPath(e.path) = dir)
    IN  [j \in 1..Len(own) |->
            RemoteEntry(own[j].path, <<own[j].path[Len(own[j].path)]>>, own[j].entry_type)]

\* the payloads the remote may send for a listing request: the (possibly
\* truncated) TreeModel, an error payload, or no payload at all
Responses(r, ref, recursive) ==
    {[kind |-> "Tree", sha |-> <<"Tree", DirOfRef(ref)>>,
      url |-> <<"url", "Tree", DirOfRef(ref)>>,
      tree |-> IF recursive THEN r ELSE ListDir(r, DirOfRef(ref)),
      truncated |-> FALSE]}
    \cup {[kind |-> "Tree", sha |-> <<"Tree", DirOfRef(ref)>>,
           url |-> <<"url", "Tree", DirOfRef(ref)>>,
           tree |-> SubSeq(r, 1, n), truncated |-> TRUE] :
            n \in {m \in 0..Len(r) - 1 : recursive}}
    \cup {[kind |-> "Error", message |-> m] : m \in Messages}
    \cup {[kind |-> "Transport"]}

\* get_tree_request from the response on: Ok(TreeModel), Err(GithubError(message))
\* for an error payload, Err(RequestError) when the request itself failed
GetTreeRequest(resp) ==
    IF resp.kind = "Tree"
    THEN [kind |-> "Ok", tree |-> [sha |-> resp.sha, url |-> resp.url,
                                   tree |-> resp.tree, truncated |-> resp.truncated]]
    ELSE IF resp.kind = "Error"
    THEN [kind |-> "Err", error |-> [kind |-> "GithubError", message |-> resp.message]]
    ELSE [kind |-> "Err", error |-> [kind |-> "RequestError"]]

Exchange(ref, recursive, resp) ==
    [branch |-> ref, recursive |-> recursive, response |-> resp]

GetTreeRecursiveAlwaysManual ==
    /\ fpc = "start"
    /\ \E resp \in Responses(repo, Branch, TRUE) :
        LET r == GetTreeRequest(resp)
        IN  /\ exchanges' = Append(exchanges, Exchange(Branch, TRUE, resp))
            /\ IF r.kind = "Err" THEN fpc' = "done" /\ fetch_result' = r
               ELSE fpc' = "initial" /\ fetch_result' = fetch_result
    /\ UNCHANGED <<repo, frames, entries>>
    /\ UNCHANGED <<filterVars, treeVars, dlVars>>
\* line 347-350: the recursive request
GetTreeRecursive ==
    /\ fpc = "start"
    /\ \E resp \in Responses(repo, Branch, TRUE) :
        LET r == GetTreeRequest(resp)
        IN  /\ exchanges' = Append(exchanges, Exchange(Branch, TRUE, resp))
            /\ IF r.kind = "Err" THEN fpc' = "done" /\ fetch_result' = r
               ELSE IF ~r.tree.truncated THEN fpc' = "done" /\ fetch_result' = r
               ELSE fpc' = "initial" /\ fetch_result' = fetch_result
    /\ UNCHANGED <<repo, frames, entries>>
    /\ UNCHANGED <<filterVars, treeVars, dlVars>>

\* line 352-353: the non-recursive request of the root
GetTreeInitial ==
    /\ fpc = "initial"
    /\ \E resp \in Responses(repo, Branch, FALSE) :
        LET r == GetTreeRequest(resp)
        IN  /\ exchanges' = Append(exchanges, Exchange(Branch, FALSE, resp))
            /\ IF r.kind = "Err"
               THEN /\ fpc' = "done"
                    /\ fetch_result' = r
                    /\ frames' = frames
               ELSE /\ fpc' = "walk"
                    /\ fetch_result' = fetch_result
                    /\ frames' = <<[fn |-> "get_tree", branch |-> Branch,
                                    parent_entry_path |-> <<>>, model |-> r.tree,
                                    idx |-> 1]>>
    /\ entries' = <<>>
    /\ UNCHANGED repo
    /\ UNCHANGED <<filterVars, treeVars, dlVars>>

Top == frames[Len(frames)]

\* the loops of get_tree (354-358) and get_tree_manual (382-391) on a Blob entry
WalkSkipBlob ==
    /\ fpc = "walk"
    /\ Top.idx <= Len(Top.model.tree)
    /\ Top.model.tree[Top.idx].entry_type # "Tree"
    /\ frames' = [frames EXCEPT ![Len(frames)].idx = @ + 1]
    /\ UNCHANGED <<repo, fpc, exchanges, entries, fetch_result>>
    /\ UNCHANGED <<filterVars, treeVars, dlVars>>

\* the arguments of the get_tree_manual call for the Tree entry e: line 356 in
\* get_tree, lines 384-388 in get_tree_manual
ManualCall(frame, e) ==
    IF frame.fn = "get_tree"
    THEN [branch |-> frame.branch, parent_entry_path |-> e.path]
    ELSE [branch |-> e.sha, parent_entry_path |-> frame.parent_entry_path \o e.path]

WalkDescendSkipsOnError ==
    /\ fpc = "walk"
    /\ Top.idx <= Len(Top.model.tree)
    /\ Top.model.tree[Top.idx].entry_type = "Tree"
    /\ LET call == ManualCall(Top, Top.model.tree[Top.idx])
       IN  \E resp \in Responses(repo, call.branch, FALSE) :
            LET r == GetTreeRequest(resp)
                caller == [Top EXCEPT !.idx = @ + 1]
            IN  /\ exchanges' = Append(exchanges, Exchange(call.branch, FALSE, resp))
                /\ fpc' = fpc
                /\ fetch_result' = fetch_result
                /\ IF r.kind = "Err"
                   THEN frames' = [frames EXCEPT ![Len(frames)] = caller]
                   ELSE frames' = Append([frames EXCEPT ![Len(frames)] = caller],
                                      [fn |-> "get_tree_manual", branch |-> call.branch,
                                       parent_entry_path |-> call.parent_entry_path,
                                       model |-> r.tree, idx |-> 1])
    /\ UNCHANGED <<repo, entries>>
    /\ UNCHANGED <<filterVars, treeVars, dlVars>>

\* a Tree entry: get_tree_manual is called and makes its request (line 381); an
\* error returns through every caller's `?`
WalkDescend ==
    /\ fpc = "walk"
    /\ Top.idx <= Len(Top.model.tree)
    /\ Top.model.tree[Top.idx].entry_type = "Tree"
    /\ LET call == ManualCall(Top, Top.model.tree[Top.idx])
       IN  \E resp \in Responses(repo, call.branch, FALSE) :
            LET r == GetTreeRequest(resp)
                caller == [Top EXCEPT !.idx = @ + 1]
            IN  /\ exchanges' = Append(exchanges, Exchange(call.branch, FALSE, resp))
                /\ IF r.kind = "Err"
                   THEN /\ fpc' = "done"
                        /\ fetch_result' = r
                        /\ frames' = <<>>
                   ELSE /\ fpc' = fpc
                        /\ fetch_result' = fetch_result
                        /\ frames' = Append([frames EXCEPT ![Len(frames)] = caller],
                                        [fn |-> "get_tree_manual", branch |-> call.branch,
                                         parent_entry_path |-> call.parent_entry_path,
                                         model |-> r.tree, idx |-> 1])
    /\ UNCHANGED <<repo, entries>>
    /\ UNCHANGED <<filterVars, treeVars, dlVars>>

\* lines 393-395: get_tree_manual appends its own listing and returns
WalkReturn ==
    /\ fpc = "walk"
    /\ Top.fn = "get_tree_manual"
    /\ Top.idx > Len(Top.model.tree)
    /\ entries' = entries \o Top.model.tree
    /\ frames' = SubSeq(frames, 1, Len(frames) - 1)
    /\ UNCHANGED <<repo, fpc, exchanges, fetch_result>>
    /\ UNCHANGED <<filterVars, treeVars, dlVars>>

\* lines 360-367: get_tree appends the root listing and returns the TreeModel
GetTreeFinish ==
    /\ fpc = "walk"
    /\ Top.fn = "get_tree"
    /\ Top.idx > Len(Top.model.tree)
    /\ entries' = entries \o Top.model.tree
    /\ fetch_result' = [kind |-> "Ok",
                        tree |-> [sha |-> Top.model.sha, url |-> Top.model.url,
                                  tree |-> entries', truncated |-> FALSE]]
    /\ frames' = <<>>
    /\ fpc' = "done"
    /\ UNCHANGED <<repo, exchanges>>
    /\ UNCHANGED <<filterVars, treeVars, dlVars>>

\* SourceTree::get, line 112-113: `?` on the fetch, then the tree is assembled
GetInto ==
    /\ fpc = "done"
    /\ asm = "fetching"
    /\ fetch_result.kind = "Ok"
    /\ listing' = fetch_result.tree.tree
    /\ asm' = "pending"
    /\ UNCHANGED <<tree, iter, yielded, iter_state, res_query, res_result,
                   prune_pred, pruned>>
    /\ UNCHANGED <<filterVars, fetchVars, dlVars>>

\* a call of SourceTree::get(path)
InitFetch ==
    /\ included = <<>>
    /\ excluded = <<>>
    /\ FilterIdle
    /\ listing = <<>>
    /\ asm = "fetching"
    /\ tree = None
    /\ TreeIdle
    /\ repo \in Repos
    /\ fpc = "start"
    /\ exchanges = <<>>
    /\ frames = <<>>
    /\ entries = <<>>
    /\ fetch_result = NotReturned
    /\ DownloadIdle

NextFetch ==
    \/ GetTreeRecursive
    \/ GetTreeInitial
    \/ WalkSkipBlob
    \/ WalkDescend
    \/ WalkReturn
    \/ GetTreeFinish
    \/ GetInto
    \/ AssembleTree

SpecFetch == InitFetch /\ [][NextFetch]_vars

----
\* Claims about the fetch (SpecFetch)

\* the first (recursive) response was truncated
WasTruncated ==
    /\ Len(exchanges) >= 2
    /\ exchanges[1].response.kind = "Tree"
    /\ exchanges[1].response.truncated

\* C6: if the recursive listing is truncated, the flat set get_tree returns has at
\* least as many entries as the root's non-recursive listing and holds, under its
\* root-relative path, an entry for every file and directory of the repository.
C6_FallbackIsComplete ==
    (WasTruncated /\ fetch_result.kind = "Ok") =>
        /\ Len(fetch_result.tree.tree) >= Len(exchanges[2].response.tree)
        /\ \A i \in DOMAIN repo :
            \E j \in DOMAIN fetch_result.tree.tree :
                /\ fetch_result.tree.tree[j].path = repo[i].path
                /\ fetch_result.tree.tree[j].sha = repo[i].sha

\* C10: a listing request answered with an error payload is the last request:
\* the fetch has returned Error::GithubError with that message, and no tree is
\* produced.
C10_ErrorPayloadAborts ==
    \A i \in DOMAIN exchanges :
        exchanges[i].response.kind = "Error" =>
            /\ i = Len(exchanges)
            /\ fpc = "done"
            /\ fetch_result =
                [kind |-> "Err",
                 error |-> [kind |-> "GithubError",
                            message |-> exchanges[i].response.message]]
            /\ asm = "fetching"
            /\ tree = None
            /\ listing = <<>>

\* a sub-directory request of the manual walk was answered with an error payload
C10_Witness ==
    /\ Len(exchanges) >= 4
    /\ exchanges[Len(exchanges)].response.kind = "Error"
    /\ exchanges[Len(exchanges)].branch # Branch
    /\ fetch_result.kind = "Err"
    /\ entries # <<>>

\* C19: when the recursive response is a listing that is not truncated, get_tree
\* has made that one request only and returned exactly that listing; any further
\* request is non-recursive and follows a truncated recursive response.
C19_CompleteListingIsReturned ==
    /\ (/\ Len(exchanges) >= 1
        /\ exchanges[1].response.kind = "Tree"
        /\ ~exchanges[1].response.truncated) =>
            /\ Len(exchanges) = 1
            /\ exchanges[1].recursive
            /\ fpc = "done"
            /\ fetch_result.kind = "Ok"
            /\ fetch_result.tree.tree = exchanges[1].response.tree
            /\ fetch_result.tree.sha = exchanges[1].response.sha
            /\ fetch_result.tree.url = exchanges[1].response.url
    /\ \A i \in DOMAIN exchanges :
        i >= 2 =>
            /\ ~exchanges[i].recursive
            /\ exchanges[1].response.kind = "Tree"
            /\ exchanges[1].response.truncated

\* a repository of three entries was listed whole by the first request
C19_Witness ==
    /\ Len(exchanges) = 1
    /\ exchanges[1].response.kind = "Tree"
    /\ ~exchanges[1].response.truncated
    /\ Len(exchanges[1].response.tree) = 3
    /\ fetch_result.kind = "Ok"
    /\ asm = "done"

\* C20: in the manual walk, an entry found in the listing of directory D is in the
\* result under D's root-relative path followed by the entry's own name, so every
\* path of the result is the root-relative path of the object it names.
C20_ManualWalkPrefixesPaths ==
    (WasTruncated /\ fetch_result.kind = "Ok") =>
        \A j \in DOMAIN fetch_result.tree.tree :
            \E i \in DOMAIN repo :
                /\ repo[i].sha = fetch_result.tree.tree[j].sha
                /\ repo[i].path = fetch_result.tree.tree[j].path

\* C25: the flat listing the fallback returns holds every entry of the remote
\* repository exactly once: no entry of the root listing or of a sub-directory
\* listing is in it twice.
C25_FallbackHasNoDuplicates ==
    (WasTruncated /\ fetch_result.kind = "Ok") =>
        /\ \A i, j \in DOMAIN fetch_result.tree.tree :
            fetch_result.tree.tree[i].sha = fetch_result.tree.tree[j].sha => i = j
        /\ \A i \in DOMAIN repo :
            \E j \in DOMAIN fetch_result.tree.tree :
                fetch_result.tree.tree[j].sha = repo[i].sha

----
\* src/src/download.rs: one call of download_node, with the output directory

\* the characters a response's `content` is made of: two of the base64 alphabet,
\* the line break GitHub inserts, and one that is not base64
Base64Chars == {"a", "G"}
Contents ==
    {<<"a", "G">>, <<"a", "\n", "G", "\n">>, <<"a", "!">>, <<>>}

\* the response bodies: not JSON, an error payload, a blob payload
Bodies ==
    {[kind |-> "Garbage"]}
    \cup {[kind |-> "Error", message |-> m] : m \in Messages}
    \cup {[kind |-> "Blob", content |-> c] : c \in Contents}

\* line 219: content.chars().filter(|c| *c != '\n').collect()
StripNewlines(content) == SelectSeq(content, LAMBDA c : c # "\n")

\* line 220: BASE64_STANDARD.decode: the bytes, or None for a DecodeError
Decode(str) ==
    IF \A i \in DOMAIN str : str[i] \in Base64Chars
    THEN Some(<<"bytes", str>>)
    ELSE None

\* the directories of the output directory: <<>> is output_path itself
DirPaths == {<<>>} \cup {<<x>> : x \in Names}

\* the output directories download_node may find: none, or output_path with some
\* of its sub-directories, the file to write being there already or not
Disks ==
    {[dirs |-> {}, files |-> {}]}
    \cup {d \in {[dirs |-> {<<>>} \cup D, files |-> F] :
                    D \in SUBSET (DirPaths \ {<<>>}),
                    F \in {{}} \cup {{[path |-> p, bytes |-> <<"bytes", <<"G">>>>]} :
                                        p \in Paths}} :
            \A x \in d.files : ParentPath(x.path) \in d.dirs /\ x.path \notin d.dirs}

NodeErr(kind) == [kind |-> "Err", error |-> [kind |-> kind]]

\* lines 197-198: the client and the request are built
NodeClient ==
    /\ npc = "client"
    /\ \E outcome \in {"ok", "Other", "RequestError"} :
        IF outcome = "ok"
        THEN npc' = "execute" /\ node_result' = node_result
        ELSE npc' = "done" /\ node_result' = NodeErr(outcome)
    /\ UNCHANGED <<node_path, body, bytes, disk, disk_before>>
    /\ UNCHANGED <<filterVars, treeVars, fetchVars, loopVars>>

\* lines 205-206: the request is sent and the body is read
NodeExecute ==
    /\ npc = "execute"
    /\ \/ /\ \E b \in Bodies : body' = Some(b)
          /\ npc' = "parse"
          /\ node_result' = node_result
       \/ /\ body' = body
          /\ npc' = "done"
          /\ node_result' = NodeErr("RequestError")
    /\ UNCHANGED <<node_path, bytes, disk, disk_before>>
    /\ UNCHANGED <<filterVars, treeVars, fetchVars, loopVars>>

\* lines 215-217: the body is parsed as BlobOrError
NodeParse ==
    /\ npc = "parse"
    /\ IF body[1].kind = "Garbage"
       THEN npc' = "done" /\ node_result' = NodeErr("DeserializationError")
       ELSE IF body[1].kind = "Error"
       THEN /\ npc' = "done"
            /\ node_result' = [kind |-> "Err",
                               error |-> [kind |-> "GithubError",
                                          message |-> body[1].message]]
       ELSE npc' = "decode" /\ node_result' = node_result
    /\ UNCHANGED <<node_path, body, bytes, disk, disk_before>>
    /\ UNCHANGED <<filterVars, treeVars, fetchVars, loopVars>>

NodeDecodeAfterMkdir ==
    /\ npc = "decode"
    /\ LET decoded == Decode(StripNewlines(body[1].content))
       IN  IF decoded = None
           THEN /\ npc' = "done"
                /\ node_result' = NodeErr("Base64Error")
                /\ bytes' = bytes
           ELSE /\ npc' = "ensure_dir"
                /\ node_result' = node_result
                /\ bytes' = decoded
    /\ disk' = [disk EXCEPT !.dirs = @ \cup {<<>>, ParentPath(node_path)}]
    /\ UNCHANGED <<node_path, body, disk_before>>
    /\ UNCHANGED <<filterVars, treeVars, fetchVars, loopVars>>

\* lines 219-220: the content is decoded
NodeDecode ==
    /\ npc = "decode"
    /\ LET decoded == Decode(StripNewlines(body[1].content))
       IN  IF decoded = None
           THEN /\ npc' = "done"
                /\ node_result' = NodeErr("Base64Error")
                /\ bytes' = bytes
           ELSE /\ npc' = "ensure_dir"
                /\ node_result' = node_result
                /\ bytes' = decoded
    /\ UNCHANGED <<node_path, body, disk, disk_before>>
    /\ UNCHANGED <<filterVars, treeVars, fetchVars, loopVars>>

\* the directories from output_path down, k levels deep, on the way to d
Chain(d, k) == {SubSeq(d, 1, j) : j \in 0..(k - 1)}

\* ensure_dir_exists for output_path.join(tree.path): nothing to do when the
\* parent directory exists; else create_dir_all makes it with its missing
\* ancestors, or fails having made some of them
EnsureDirExists ==
    /\ npc = "ensure_dir"
    /\ LET dirname == ParentPath(node_path)
       IN  IF dirname \in disk.dirs
           THEN /\ npc' = "write"
                /\ disk' = disk
                /\ node_result' = node_result
           ELSE \E k \in 0..(Len(dirname) + 1) :
                /\ disk' = [disk EXCEPT !.dirs = @ \cup Chain(dirname, k)]
                /\ IF k = Len(dirname) + 1
                   THEN npc' = "write" /\ node_result' = node_result
                   ELSE npc' = "done" /\ node_result' = NodeErr("IOError")
    /\ UNCHANGED <<node_path, body, bytes, disk_before>>
    /\ UNCHANGED <<filterVars, treeVars, fetchVars, loopVars>>

\* the files of the disk with the file at path p replaced by one holding b
WithFile(fs, p, b) ==
    {x \in fs : x.path # p} \cup {[path |-> p, bytes |-> b]}

\* line 233: tokio::fs::write replaces the file, or fails leaving the old file
\* or an empty one
WriteFile ==
    /\ npc = "write"
    /\ \/ /\ disk' = [disk EXCEPT !.files = WithFile(@, node_path, bytes[1])]
          /\ node_result' = [kind |-> "Ok"]
       \/ /\ disk' \in {disk, [disk EXCEPT !.files = WithFile(@, node_path, <<>>)]}
          /\ node_result' = NodeErr("IOError")
    /\ npc' = "done"
    /\ UNCHANGED <<node_path, body, bytes, disk_before>>
    /\ UNCHANGED <<filterVars, treeVars, fetchVars, loopVars>>

\* a call of Downloader::download_node(access_token, output_path, tree)
InitNode ==
    /\ included = <<>>
    /\ excluded = <<>>
    /\ FilterIdle
    /\ listing = <<>>
    /\ asm = "idle"
    /\ tree = None
    /\ TreeIdle
    /\ FetchIdle
    /\ LoopIdle
    /\ npc = "client"
    /\ node_path \in Paths
    /\ body = None
    /\ bytes = None
    /\ disk \in Disks
    /\ disk_before = disk
    /\ node_result = NotReturned

NextNode ==
    \/ NodeClient
    \/ NodeExecute
    \/ NodeParse
    \/ NodeDecode
    \/ EnsureDirExists
    \/ WriteFile

SpecNode == InitNode /\ [][NextNode]_vars

----
\* Claims about download_node (SpecNode)

\* the errors download_node returns before it touches the output directory
EarlyErrors ==
    {"Other", "RequestError", "DeserializationError", "GithubError", "Base64Error"}

\* C26: a download that fails while fetching, parsing, on an error payload or while
\* decoding leaves the output directory as it was; the output directory changes
\* only once the content has been decoded.
C26_EarlyFailureLeavesDisk ==
    /\ (node_result.kind = "Err" /\ node_result.error.kind \in EarlyErrors) =>
            disk = disk_before
    /\ npc \in {"client", "execute", "parse", "decode", "ensure_dir"} =>
            disk = disk_before
    /\ disk # disk_before => bytes # None

\* the content of b/a could not be decoded and the output directory, which does
\* not exist, was not created
C26_Witness ==
    /\ npc = "done"
    /\ node_path = <<"b", "a">>
    /\ node_result = NodeErr("Base64Error")
    /\ body # None
    /\ body[1].kind = "Blob"
    /\ disk_before.dirs = {}
    /\ disk = disk_before

====
